---------------------------- MODULE Spec2Model ----------------------------
(***************************************************************************)
(* A model of gost (src/gost.go): a small HTTP service with two listener   *)
(* goroutines (plaintext :8000, TLS :8443), a buffered channel             *)
(* service_status used as a counter of goroutines in service, four routes  *)
(* registered on the default ServeMux, and a main goroutine that waits for *)
(* an interrupt and exits.                                                 *)
(*                                                                         *)
(* A request path is the sequence of its "/"-separated segments after the  *)
(* leading slash: "/" is <<"">>, "/down" is <<"down">>, "/status/" is      *)
(* <<"status", "">>, "/status/x" is <<"status", "x">>.                     *)
(***************************************************************************)
EXTENDS Integers, Sequences, FiniteSets

(* Bounds of the model. *)
MaxInflight == 1         \* handler goroutines running at once

(* Program constants. *)
Capacity == 2            \* make(chan int, 2)
SigCapacity == 1         \* make(chan os.Signal, 1)

Listeners == {"plain", "tls"}
Methods == {"", "GET", "PUT", "POST"}

VARIABLES
    service_status,  \* the channel: [buf: sequence of ints, cap: its capacity]
    pcMain,          \* position of the main goroutine
    pc,              \* position of each listener goroutine
    mux,             \* DefaultServeMux: set of [pattern, handler]
    sig,             \* buffer of the signal channel of wait_for_death
    notify,          \* TRUE once signal.Notify(sig, os.Interrupt) has run
    inflight,        \* number of handler goroutines started and not finished
    resp,            \* the last response written, with its request
    health,          \* the last answer of route_status since the registry changed
    occupies,        \* per listener: sends on service_status performed
    releases,        \* per listener: receives from service_status performed
    exitBy           \* "none" while the process runs, else who ended it

vars == <<service_status, pcMain, pc, mux, sig, notify, inflight, resp,
          health, occupies, releases, exitBy>>

---------------------------------------------------------------------------
(* Request paths and the routing of net/http's ServeMux as go_serve sets it up. *)

Root == <<"">>

(* The request paths: "/", "/down", "/up", "/status", "/status/",          *)
(* "/status/x", "/x", "/down/", "/x/..".                                   *)
Paths ==
    { Root, <<"down">>, <<"up">>, <<"status">>, <<"status", "">>,
      <<"status", "x">>, <<"x">>, <<"down", "">>, <<"x", "..">> }

Requests == [method : Methods, path : Paths]

RECURSIVE CleanSegs(_, _)
CleanSegs(p, acc) ==
    IF p = <<>> THEN acc
    ELSE LET h == Head(p) IN
         CleanSegs(Tail(p),
                   IF h = "" THEN acc
                   ELSE IF h = ".."
                        THEN (IF acc = <<>> THEN acc
                              ELSE SubSeq(acc, 1, Len(acc) - 1))
                        ELSE Append(acc, h))

(* The canonical form of a path: ".." and empty segments resolved, the    *)
(* trailing slash kept except on the root.                                 *)
cleanPath(p) ==
    LET np == CleanSegs(p, <<>>) IN
    IF np = <<>> THEN Root
    ELSE IF p[Len(p)] = "" THEN Append(np, "") ELSE np

IsSubtree(pattern) == pattern[Len(pattern)] = ""

(* A pattern without trailing slash matches one path; a pattern with one  *)
(* matches every path it is a prefix of.                                   *)
pathMatch(pattern, path) ==
    IF ~IsSubtree(pattern) THEN pattern = path
    ELSE /\ Len(path) >= Len(pattern)
         /\ SubSeq(path, 1, Len(pattern) - 1)
              = SubSeq(pattern, 1, Len(pattern) - 1)

(* Routes registered by go_serve. *)
Routes ==
    { [pattern |-> <<"down">>,       handler |-> "route_down"],
      [pattern |-> <<"up">>,         handler |-> "route_up"],
      [pattern |-> <<"status", "">>, handler |-> "route_status"],
      [pattern |-> Root,             handler |-> "route_default"] }

(* The handler the mux m picks for a path: a redirect for a path that is  *)
(* not canonical or that names a registered subtree without its trailing  *)
(* slash; otherwise the exact pattern, otherwise the longest prefix.       *)
muxHandler(m, path) ==
    LET patterns == {e.pattern : e \in m}
        matching == {e \in m : pathMatch(e.pattern, path)}
        exact    == {e \in matching : ~IsSubtree(e.pattern)}
        longest  == {e \in matching :
                        \A f \in matching : Len(f.pattern) <= Len(e.pattern)}
    IN  IF cleanPath(path) # path THEN "redirect"
        ELSE IF path \notin patterns /\ Append(path, "") \in patterns
             THEN "redirect"
        ELSE IF exact # {} THEN (CHOOSE e \in exact : TRUE).handler
        ELSE IF longest # {} THEN (CHOOSE e \in longest : TRUE).handler
        ELSE "not_found"

---------------------------------------------------------------------------
(* The route handlers: status code and body written for a request. *)

Answer(status, body) == [status |-> status, body |-> body]

(* route_default without its path test. *)
route_default_any(req) == Answer(200, "")

route_default(req) ==
    IF req.path # Root THEN Answer(404, "Not Found")
    ELSE Answer(200, "")

(* route_status with the method test of route_down pasted in. *)
route_status_get_only(req, ch) ==
    IF req.method # "GET" /\ req.method # "" THEN Answer(405, "Method Not Allowed")
    ELSE IF Len(ch.buf) # ch.cap THEN Answer(404, "Unhealthy")
    ELSE Answer(200, "Healthy")

(* route_status with the comparison turned round. *)
route_status_inverted(req, ch) ==
    IF Len(ch.buf) = ch.cap THEN Answer(404, "Unhealthy")
    ELSE Answer(200, "Healthy")

(* route_status that takes any occupied slot for health. *)
route_status_nonempty(req, ch) ==
    IF Len(ch.buf) = 0 THEN Answer(404, "Unhealthy")
    ELSE Answer(200, "Healthy")

route_status(req, ch) ==
    IF Len(ch.buf) # ch.cap THEN Answer(404, "Unhealthy")
    ELSE Answer(200, "Healthy")

(* route_down with || in place of &&. *)
route_down_or(req) ==
    IF req.method # "GET" \/ req.method # "" THEN Answer(405, "Method Not Allowed")
    ELSE Answer(200, "Download Test")

route_down(req) ==
    IF req.method # "GET" /\ req.method # "" THEN Answer(405, "Method Not Allowed")
    ELSE Answer(200, "Download Test")

route_up(req) ==
    IF req.method # "PUT" /\ req.method # "" THEN Answer(405, "Method Not Allowed")
    ELSE Answer(200, "Upload Test")

(* The mux's own answers: permanent redirect and page not found. *)
muxRedirect(req) ==
    Answer(301, IF req.method = "GET" THEN "Moved Permanently" ELSE "")

muxNotFound(req) == Answer(404, "404 page not found")

(* The answer of handler h to req, the registry being ch. *)
ServeHTTP(h, req, ch) ==
    CASE h = "route_default" -> route_default(req)
      [] h = "route_status"  -> route_status(req, ch)
      [] h = "route_down"    -> route_down(req)
      [] h = "route_up"      -> route_up(req)
      [] h = "redirect"      -> muxRedirect(req)
      [] OTHER               -> muxNotFound(req)

NoResponse ==
    [method |-> "", path |-> <<>>, handler |-> "none", status |-> 0, body |-> ""]

Response(req, h, a) ==
    [method |-> req.method, path |-> req.path, handler |-> h,
     status |-> a.status, body |-> a.body]

---------------------------------------------------------------------------
(* Channel operations. *)

(* A channel made one slot short. *)
MakeChanShort(n) == [buf |-> <<>>, cap |-> n - 1]

MakeChan(n) == [buf |-> <<>>, cap |-> n]
CanSend(ch) == Len(ch.buf) < ch.cap
ChanSend(ch, v) == [ch EXCEPT !.buf = Append(@, v)]
CanRecv(ch) == Len(ch.buf) > 0
ChanRecv(ch) == [ch EXCEPT !.buf = Tail(@)]

Running == exitBy = "none"

(* No health answer given since the registry last changed. *)
NoHealth == [status |-> 0, body |-> "", repeat |-> FALSE]

(* The record of health after handler h wrote answer a; repeat tells that *)
(* an earlier health answer was given since the registry last changed.     *)
HealthSeen(h, a) ==
    IF h = "route_status"
    THEN [status |-> a.status, body |-> a.body, repeat |-> health.status # 0]
    ELSE health

---------------------------------------------------------------------------
Init ==
    /\ service_status = MakeChan(Capacity)
    /\ pcMain = "receive_configuration"
    /\ pc = [t \in Listeners |-> "unspawned"]
    /\ mux = {}
    /\ sig = <<>>
    /\ notify = FALSE
    /\ inflight = 0
    /\ resp = NoResponse
    /\ health = NoHealth
    /\ occupies = [t \in Listeners |-> 0]
    /\ releases = [t \in Listeners |-> 0]
    /\ exitBy = "none"

---------------------------------------------------------------------------
(* The main goroutine. *)

receive_configuration ==
    /\ Running
    /\ pcMain = "receive_configuration"
    /\ pcMain' = "go_serve"
    /\ UNCHANGED <<service_status, pc, mux, sig, notify, inflight, resp, health,
                   occupies, releases, exitBy>>

(* go_serve: the four http.HandleFunc calls. *)
RegisterRoutes ==
    /\ Running
    /\ pcMain = "go_serve"
    /\ mux' = mux \cup Routes
    /\ pcMain' = "spawn_plain"
    /\ UNCHANGED <<service_status, pc, sig, notify, inflight, resp, health,
                   occupies, releases, exitBy>>

(* The listener called without go: main runs it and goes on only when it   *)
(* has ended.                                                              *)
SpawnSync(t) ==
    /\ Running
    /\ pcMain = (IF t = "plain" THEN "spawn_plain" ELSE "spawn_tls")
    /\ \/ /\ pc[t] = "unspawned"
          /\ pc' = [pc EXCEPT ![t] = "send"]
          /\ pcMain' = pcMain
       \/ /\ pc[t] = "exited"
          /\ pc' = pc
          /\ pcMain' = (IF t = "plain" THEN "spawn_tls" ELSE "wait_for_death")
    /\ UNCHANGED <<service_status, mux, sig, notify, inflight, resp, health,
                   occupies, releases, exitBy>>

(* The go statement of the TLS listener left out. *)
SpawnSkipped(t) ==
    /\ Running
    /\ pcMain = (IF t = "plain" THEN "spawn_plain" ELSE "spawn_tls")
    /\ pc' = (IF t = "plain" THEN [pc EXCEPT ![t] = "send"] ELSE pc)
    /\ pcMain' = (IF t = "plain" THEN "spawn_tls" ELSE "wait_for_death")
    /\ UNCHANGED <<service_status, mux, sig, notify, inflight, resp, health,
                   occupies, releases, exitBy>>

(* go_serve: the two go statements; neither waits for its goroutine. *)
Spawn(t) ==
    /\ Running
    /\ pcMain = (IF t = "plain" THEN "spawn_plain" ELSE "spawn_tls")
    /\ pc' = [pc EXCEPT ![t] = "send"]
    /\ pcMain' = (IF t = "plain" THEN "spawn_tls" ELSE "wait_for_death")
    /\ UNCHANGED <<service_status, mux, sig, notify, inflight, resp, health,
                   occupies, releases, exitBy>>

(* wait_for_death: make the signal channel and register it. *)
SignalNotify ==
    /\ Running
    /\ pcMain = "wait_for_death"
    /\ sig' = <<>>
    /\ notify' = TRUE
    /\ pcMain' = "wait"
    /\ UNCHANGED <<service_status, pc, mux, inflight, resp, health,
                   occupies, releases, exitBy>>

(* A receive of the signal that waits for the registry to drain. *)
ReceiveSignalDrained ==
    /\ Running
    /\ pcMain = "wait"
    /\ Len(sig) > 0
    /\ Len(service_status.buf) = 0
    /\ sig' = Tail(sig)
    /\ pcMain' = "killed"
    /\ UNCHANGED <<service_status, pc, mux, notify, inflight, resp, health,
                   occupies, releases, exitBy>>

(* wait_for_death: <-sig *)
ReceiveSignal ==
    /\ Running
    /\ pcMain = "wait"
    /\ Len(sig) > 0
    /\ sig' = Tail(sig)
    /\ pcMain' = "killed"
    /\ UNCHANGED <<service_status, pc, mux, notify, inflight, resp, health,
                   occupies, releases, exitBy>>

(* wait_for_death: log.Println("Killed."); os.Exit(0) *)
Killed ==
    /\ Running
    /\ pcMain = "killed"
    /\ exitBy' = "main"
    /\ pcMain' = "exited"
    /\ UNCHANGED <<service_status, pc, mux, sig, notify, inflight, resp, health,
                   occupies, releases>>

wait_for_death == SignalNotify \/ ReceiveSignal \/ Killed

(* The operating system delivers an interrupt; the signal package passes  *)
(* it on without blocking, and drops it when the buffer is full.           *)
Interrupt ==
    /\ Running
    /\ notify
    /\ sig' = (IF Len(sig) < SigCapacity THEN Append(sig, "interrupt") ELSE sig)
    /\ UNCHANGED <<service_status, pcMain, pc, mux, notify, inflight, resp, health,
                   occupies, releases, exitBy>>

---------------------------------------------------------------------------
(* A listener goroutine t. *)

(* The send left out: the goroutine goes on to listen unregistered. *)
OccupyNoSend(t) ==
    /\ Running
    /\ pc[t] = "send"
    /\ pc' = [pc EXCEPT ![t] = "listen"]
    /\ UNCHANGED <<service_status, pcMain, mux, sig, notify, inflight, resp,
                   health, occupies, releases, exitBy>>

(* service_status <- 1 *)
Occupy(t) ==
    /\ Running
    /\ pc[t] = "send"
    /\ CanSend(service_status)
    /\ service_status' = ChanSend(service_status, 1)
    /\ occupies' = [occupies EXCEPT ![t] = @ + 1]
    /\ pc' = [pc EXCEPT ![t] = "listen"]
    /\ health' = NoHealth
    /\ UNCHANGED <<pcMain, mux, sig, notify, inflight, resp, releases, exitBy>>

(* http.ListenAndServe / ListenAndServeTLS is called: it binds and serves, *)
(* or returns at once with an error (port in use, certificate not loaded). *)
ListenAndServe(t) ==
    /\ Running
    /\ pc[t] = "listen"
    /\ \E ok \in BOOLEAN :
          pc' = [pc EXCEPT ![t] = IF ok THEN "serving" ELSE "returned"]
    /\ UNCHANGED <<service_status, pcMain, mux, sig, notify, inflight, resp, health,
                   occupies, releases, exitBy>>

(* The goroutine body in a loop: a returned serve call starts over. *)
ServeReturnsRetry(t) ==
    /\ Running
    /\ pc[t] = "serving"
    /\ pc' = [pc EXCEPT ![t] = "send"]
    /\ UNCHANGED <<service_status, pcMain, mux, sig, notify, inflight, resp,
                   health, occupies, releases, exitBy>>

(* The serve loop ends with an error (accept fails). *)
ServeReturns(t) ==
    /\ Running
    /\ pc[t] = "serving"
    /\ pc' = [pc EXCEPT ![t] = "returned"]
    /\ UNCHANGED <<service_status, pcMain, mux, sig, notify, inflight, resp, health,
                   occupies, releases, exitBy>>

(* log.Fatal placed before the receive: the goroutine exits unreleased. *)
FatalBeforeRelease(t) ==
    /\ Running
    /\ pc[t] = "returned"
    /\ exitBy' = t
    /\ pc' = [pc EXCEPT ![t] = "exited"]
    /\ UNCHANGED <<service_status, pcMain, mux, sig, notify, inflight, resp, health,
                   occupies, releases>>

(* The receive written twice. *)
ReleaseTwice(t) ==
    /\ Running
    /\ pc[t] = "returned"
    /\ Len(service_status.buf) >= 2
    /\ service_status' = ChanRecv(ChanRecv(service_status))
    /\ releases' = [releases EXCEPT ![t] = @ + 2]
    /\ pc' = [pc EXCEPT ![t] = "fatal"]
    /\ health' = NoHealth
    /\ UNCHANGED <<pcMain, mux, sig, notify, inflight, resp, occupies, exitBy>>

(* <-service_status *)
Release(t) ==
    /\ Running
    /\ pc[t] = "returned"
    /\ CanRecv(service_status)
    /\ service_status' = ChanRecv(service_status)
    /\ releases' = [releases EXCEPT ![t] = @ + 1]
    /\ pc' = [pc EXCEPT ![t] = "fatal"]
    /\ health' = NoHealth
    /\ UNCHANGED <<pcMain, mux, sig, notify, inflight, resp, occupies, exitBy>>

(* log.Print in place of log.Fatal: the goroutine ends, the process goes on. *)
LogPrint(t) ==
    /\ Running
    /\ pc[t] = "fatal"
    /\ pc' = [pc EXCEPT ![t] = "exited"]
    /\ UNCHANGED <<service_status, pcMain, mux, sig, notify, inflight, resp, health,
                   occupies, releases, exitBy>>

(* The error logged and the goroutine started over in place of log.Fatal. *)
LogRetry(t) ==
    /\ Running
    /\ pc[t] = "fatal"
    /\ pc' = [pc EXCEPT ![t] = "send"]
    /\ UNCHANGED <<service_status, pcMain, mux, sig, notify, inflight, resp,
                   health, occupies, releases, exitBy>>

(* log.Fatal(err): logs and calls os.Exit(1). *)
LogFatal(t) ==
    /\ Running
    /\ pc[t] = "fatal"
    /\ exitBy' = t
    /\ pc' = [pc EXCEPT ![t] = "exited"]
    /\ UNCHANGED <<service_status, pcMain, mux, sig, notify, inflight, resp, health,
                   occupies, releases>>

(* The steps of listener t that are the goroutine's own code. *)
ListenerStep(t) == Occupy(t) \/ ListenAndServe(t) \/ Release(t) \/ LogFatal(t)

---------------------------------------------------------------------------
(* Requests.  A listener in its serve loop accepts a request and starts a  *)
(* handler goroutine for it; the handler goroutine outlives the listener.  *)

Accept ==
    /\ Running
    /\ \E t \in Listeners : pc[t] = "serving"
    /\ inflight < MaxInflight
    /\ inflight' = inflight + 1
    /\ UNCHANGED <<service_status, pcMain, pc, mux, sig, notify, resp, health,
                   occupies, releases, exitBy>>

(* A health handler that probes the registry with a receive. *)
HandleProbing(req) ==
    /\ Running
    /\ inflight > 0
    /\ inflight' = inflight - 1
    /\ LET h == muxHandler(mux, req.path) IN
       /\ resp' = Response(req, h, ServeHTTP(h, req, service_status))
       /\ health' = HealthSeen(h, ServeHTTP(h, req, service_status))
       /\ service_status' =
             IF h = "route_status" /\ CanRecv(service_status)
             THEN ChanRecv(service_status) ELSE service_status
    /\ UNCHANGED <<pcMain, pc, mux, sig, notify, occupies, releases, exitBy>>

(* A handler that logs its request with log.Fatal. *)
HandleFatal(req) ==
    /\ Running
    /\ inflight > 0
    /\ inflight' = inflight - 1
    /\ LET h == muxHandler(mux, req.path) IN
       /\ resp' = Response(req, h, ServeHTTP(h, req, service_status))
       /\ health' = HealthSeen(h, ServeHTTP(h, req, service_status))
    /\ exitBy' = "handler"
    /\ UNCHANGED <<service_status, pcMain, pc, mux, sig, notify,
                   occupies, releases>>

(* The handler goroutine routes the request and writes the response. *)
Handle(req) ==
    /\ Running
    /\ inflight > 0
    /\ inflight' = inflight - 1
    /\ LET h == muxHandler(mux, req.path) IN
       /\ resp' = Response(req, h, ServeHTTP(h, req, service_status))
       /\ health' = HealthSeen(h, ServeHTTP(h, req, service_status))
    /\ UNCHANGED <<service_status, pcMain, pc, mux, sig, notify,
                   occupies, releases, exitBy>>

---------------------------------------------------------------------------
Next ==
    \/ receive_configuration
    \/ RegisterRoutes
    \/ \E t \in Listeners : Spawn(t)
    \/ SignalNotify
    \/ ReceiveSignal
    \/ Killed
    \/ Interrupt
    \/ \E t \in Listeners : Occupy(t)
    \/ \E t \in Listeners : ListenAndServe(t)
    \/ \E t \in Listeners : ServeReturns(t)
    \/ \E t \in Listeners : Release(t)
    \/ \E t \in Listeners : LogFatal(t)
    \/ Accept
    \/ \E req \in Requests : Handle(req)

Spec == Init /\ [][Next]_vars

(* The steps of the main goroutine. *)
main ==
    \/ receive_configuration
    \/ RegisterRoutes
    \/ \E t \in Listeners : Spawn(t)
    \/ wait_for_death

(* The scheduler runs every listener goroutine that can take a step. *)
FairListeners == Spec /\ \A t \in Listeners : WF_vars(ListenerStep(t))

(* The scheduler runs the main goroutine when it can take a step. *)
FairMain == Spec /\ WF_vars(wait_for_death)

(* The scheduler runs the main goroutine in all of its steps. *)
FairLifecycle == Spec /\ WF_vars(main)

(* The scheduler runs the main goroutine and every listener goroutine. *)
FairAll == Spec /\ WF_vars(main) /\ \A t \in Listeners : WF_vars(ListenerStep(t))

---------------------------------------------------------------------------
(* Properties. *)

Occupied == Len(service_status.buf)
Saturated == Len(service_status.buf) = service_status.cap

Healthy(r) == r.status = 200 /\ r.body = "Healthy"
Unhealthy(r) == r.status = 404 /\ r.body = "Unhealthy"

(* A step in which a handler goroutine writes its response; resp' is the   *)
(* response and holds the request.                                         *)
Answers == inflight' = inflight - 1 /\ resp'.handler # "none"

(* A canonical path below the "/status/" prefix. *)
UnderStatus(path) ==
    Len(path) >= 2 /\ path[1] = "status" /\ cleanPath(path) = path

(* C1: in every reachable state the occupied-count of the registry is      *)
(* between 0 and its capacity, and the capacity is 2.                      *)
C1_OccupancyWithinCapacity ==
    /\ service_status.cap = Capacity
    /\ Occupied >= 0
    /\ Occupied <= service_status.cap

(* A listener has released after both had occupied, and a health query was *)
(* answered.                                                               *)
C1_Witness ==
    /\ Occupied = 1
    /\ \E t \in Listeners : releases[t] = 1
    /\ \A t \in Listeners : occupies[t] = 1
    /\ resp.handler = "route_status"

(* C2: a health query below /status/ is answered 200 "Healthy" iff the     *)
(* occupied-count equals the capacity when the handler reads the registry, *)
(* and 404 "Unhealthy" otherwise.                                          *)
C2_HealthyIffSaturated ==
    [][(Answers /\ UnderStatus(resp'.path)) =>
          /\ resp'.handler = "route_status"
          /\ IF Saturated THEN Healthy(resp') ELSE Unhealthy(resp')]_vars

C2_Witness ==
    /\ resp.handler = "route_status"
    /\ Healthy(resp)
    /\ Saturated

(* C3: whenever a health query is answered 200 "Healthy", both listeners   *)
(* are bound and inside their serve loop.                                  *)
C3_HealthyMeansAllServing ==
    [][(Answers /\ resp'.handler = "route_status" /\ Healthy(resp')) =>
          \A t \in Listeners : pc[t] = "serving"]_vars

(* C4: a health query answered before both listeners have occupied is      *)
(* answered 404 "Unhealthy".                                               *)
C4_NoStartupGrace ==
    [][(/\ Answers
        /\ UnderStatus(resp'.path)
        /\ \E t \in Listeners : occupies[t] = 0) => Unhealthy(resp')]_vars

C4_Witness ==
    /\ resp.handler = "route_status"
    /\ Unhealthy(resp)
    /\ \E t \in Listeners : occupies[t] = 0

(* C5: a listener that ends the process through log.Fatal has released its *)
(* slot before.                                                            *)
C5_ReleaseBeforeExit ==
    \A t \in Listeners :
        exitBy = t => (releases[t] = 1 /\ occupies[t] - releases[t] = 0)

C5_Witness ==
    \E t \in Listeners : exitBy = t /\ releases[t] = 1 /\ occupies[t] = 1

(* C6: once the serve call of a listener has returned, the process         *)
(* eventually terminates, whatever the other listener does.                *)
C6_FailFast ==
    \A t \in Listeners : (pc[t] = "returned") ~> (exitBy # "none")

(* The TLS listener ended the process while the plaintext one was serving. *)
C6_Witness ==
    /\ exitBy = "tls"
    /\ pc["plain"] = "serving"

(* C7: the process terminates only by the main goroutine's exit after it   *)
(* received the interrupt, or by a listener's log.Fatal; no other step,    *)
(* and no request handler, ends it.                                        *)
C7_ExitOnlyByInterruptOrFatal ==
    [][exitBy' # exitBy =>
          /\ exitBy = "none"
          /\ \/ exitBy' = "main" /\ pcMain = "killed" /\ Killed
             \/ \E t \in Listeners :
                   exitBy' = t /\ pc[t] = "fatal" /\ LogFatal(t)]_vars

(* Requests of every outcome were handled, and the interrupt ended it.     *)
C7_Witness ==
    /\ exitBy = "main"
    /\ resp.status = 405

(* C8: an interrupt that is pending while the main goroutine waits leads   *)
(* to termination, with no step of a listener or a handler needed.         *)
C8_InterruptTerminates ==
    (pcMain = "wait" /\ Len(sig) > 0) ~> (exitBy # "none")

(* The interrupt ended the process with one slot occupied and a request    *)
(* in flight.                                                              *)
C8_Witness ==
    /\ exitBy = "main"
    /\ Occupied = 1
    /\ inflight > 0

(* C9: /down answers 200 "Download Test" iff the method is GET or empty    *)
(* and 405 "Method Not Allowed" otherwise; /up likewise with PUT and       *)
(* "Upload Test".                                                          *)
C9_DownUpMethods ==
    /\ (resp.handler # "none" /\ resp.path = <<"down">>) =>
          IF resp.method \in {"GET", ""}
          THEN resp.status = 200 /\ resp.body = "Download Test"
          ELSE resp.status = 405 /\ resp.body = "Method Not Allowed"
    /\ (resp.handler # "none" /\ resp.path = <<"up">>) =>
          IF resp.method \in {"PUT", ""}
          THEN resp.status = 200 /\ resp.body = "Upload Test"
          ELSE resp.status = 405 /\ resp.body = "Method Not Allowed"

C9_Witness ==
    /\ resp.path = <<"down">>
    /\ resp.method = "POST"
    /\ resp.status = 405

(* A path that is one of the app routes or lies below "/status/". *)
AppRoute(path) ==
    \/ path \in {<<"down">>, <<"up">>}
    \/ (Len(path) >= 2 /\ path[1] = "status")

(* C10, as stated: "/" is answered 200 with an empty body, every other     *)
(* path that is not /down, /up or below /status/ is answered 404           *)
(* "Not Found", and the default route answers 200 for "/" only.            *)
C10_DefaultRouteAsStated ==
    resp.handler # "none" =>
       /\ resp.path = Root => (resp.status = 200 /\ resp.body = "")
       /\ (resp.path # Root /\ ~AppRoute(resp.path)) =>
             (resp.status = 404 /\ resp.body = "Not Found")
       /\ (resp.handler = "route_default" /\ resp.status = 200) =>
             resp.path = Root

(* C10, amended: the same for canonical paths other than "/status".        *)
C10_DefaultRoute ==
    resp.handler # "none" =>
       /\ resp.path = Root => (resp.status = 200 /\ resp.body = "")
       /\ (/\ resp.path # Root
           /\ ~AppRoute(resp.path)
           /\ cleanPath(resp.path) = resp.path
           /\ resp.path # <<"status">>) =>
             (resp.status = 404 /\ resp.body = "Not Found")
       /\ (resp.handler = "route_default" /\ resp.status = 200) =>
             resp.path = Root

C10_Witness ==
    /\ resp.path = <<"down", "">>
    /\ resp.handler = "route_default"
    /\ resp.status = 404
    /\ resp.body = "Not Found"

C12_RegistryChangedByListenersOnly ==
    [][service_status' # service_status =>
          \E t \in Listeners : Occupy(t) \/ Release(t)]_vars

(* Requests with outcomes 405 and 200 were handled and the interrupt was   *)
(* received with both slots still occupied.                                *)
C12_Witness ==
    /\ resp.status = 405
    /\ health.status = 200
    /\ pcMain = "killed"
    /\ Occupied = 2

(* C13: a listener about to send on service_status finds a free slot.      *)
C13_OccupyNeverBlocks ==
    \A t \in Listeners : pc[t] = "send" => Occupied < service_status.cap

(* A listener is about to send while the other one holds its slot. *)
C13_Witness ==
    \E t \in Listeners : pc[t] = "send" /\ Occupied = 1

(* C14: a listener has sent exactly once from its first step on and not    *)
(* before, has received at most once and only after its serve call         *)
(* returned; receives never exceed sends, per listener and in total.       *)
C14_OccupyOnceReleaseAfter ==
    /\ \A t \in Listeners :
          /\ occupies[t] = (IF pc[t] \in {"unspawned", "send"} THEN 0 ELSE 1)
          /\ releases[t] = (IF pc[t] \in {"fatal", "exited"} THEN 1 ELSE 0)
          /\ releases[t] <= occupies[t]
    /\ releases["plain"] + releases["tls"] <= occupies["plain"] + occupies["tls"]
    /\ Occupied = occupies["plain"] + occupies["tls"]
                    - releases["plain"] - releases["tls"]

(* One listener has sent and received, the other has sent and serves. *)
C14_Witness ==
    /\ occupies["plain"] = 1 /\ releases["plain"] = 1
    /\ occupies["tls"] = 1 /\ releases["tls"] = 0
    /\ pc["tls"] = "serving"

Released == \E t \in Listeners : releases[t] >= 1

(* C15, as stated in its first part: once a listener has released, no      *)
(* occupy happens any more.                                                *)
C15_NoOccupyAfterAnyRelease ==
    [][Released => occupies' = occupies]_vars

(* C15, amended: once a listener has released, that listener never         *)
(* occupies again, the registry is never saturated and no health query is  *)
(* answered Healthy any more, and the process terminates.                  *)
C15_NoRecoveryAfterRelease ==
    /\ [][\A t \in Listeners :
             releases[t] >= 1 => occupies'[t] = occupies[t]]_vars
    /\ [](Released => ~Saturated)
    /\ [][(Released /\ Answers) => ~Healthy(resp')]_vars
    /\ (Released ~> ~Running)

(* The plaintext listener released and ended the process; the TLS listener *)
(* had occupied.                                                           *)
C15_Witness ==
    /\ exitBy = "plain"
    /\ releases["plain"] = 1
    /\ occupies["tls"] = 1
    /\ health.status = 404

(* The position of the main goroutine in its lifecycle. *)
Rank(p) ==
    CASE p = "receive_configuration" -> 0
      [] p = "go_serve"              -> 1
      [] p = "spawn_plain"           -> 2
      [] p = "spawn_tls"             -> 3
      [] p = "wait_for_death"        -> 4
      [] p = "wait"                  -> 5
      [] p = "killed"                -> 6
      [] OTHER                       -> 7

Waiting == Rank(pcMain) >= Rank("wait")

(* C16, as stated in its liveness part: the main goroutine reaches its     *)
(* wait for the interrupt in every run, so no run has ended before.        *)
C16_MainWaitsBeforeAnyExit ==
    ~Running => Waiting

(* C16, amended: the main goroutine only moves forward, configuration and  *)
(* route registration are done before a listener is launched, and the      *)
(* main goroutine reaches its wait unless the process has ended before.    *)
C16_LifecycleForward ==
    /\ [][Rank(pcMain') >= Rank(pcMain)]_vars
    /\ []((\E t \in Listeners : pc[t] # "unspawned") =>
             Rank(pcMain) > Rank("spawn_plain"))
    /\ <>(Waiting \/ ~Running)

(* The main goroutine waits while one listener has not yet occupied, one   *)
(* has failed.                                                             *)
C16_Witness ==
    /\ pcMain = "wait"
    /\ pc["plain"] = "returned"
    /\ pc["tls"] = "send"

(* C17: a listener about to receive from service_status finds a slot       *)
(* occupied.                                                               *)
C17_ReleaseNeverBlocks ==
    \A t \in Listeners : pc[t] = "returned" => Occupied >= 1

(* Both listeners failed; one has released, the other is about to. *)
C17_Witness ==
    /\ pc["plain"] = "fatal"
    /\ pc["tls"] = "returned"
    /\ Occupied = 1

(* C18: if no serve call ever returns and no interrupt is delivered, the   *)
(* registry becomes saturated and stays so.                                *)
C18_EventuallyHealthyForever ==
    (/\ [](\A t \in Listeners : pc[t] \notin {"returned", "fatal", "exited"})
     /\ [](sig = <<>>)) => <>[]Saturated

(* Both listeners serve and a health query was answered Healthy. *)
C18_Witness ==
    /\ \A t \in Listeners : pc[t] = "serving"
    /\ sig = <<>>
    /\ Saturated
    /\ Healthy(health)

===========================================================================
